---- MODULE Spec2Model ----
(***************************************************************************)
(* A model of fritzing2kicad.py (class FritzingConverter): the conversion  *)
(* of a Fritzing part (descriptor + PCB drawing in a zip archive) to a     *)
(* KiCad footprint and a KiCad symbol.                                     *)
(*                                                                         *)
(* Conventions.                                                            *)
(*  - A Python text whose characters matter (connector ids, names, archive *)
(*    entry names) is a sequence of one-character strings.  None and the   *)
(*    empty text are both <<>>: the code only ever tests them for          *)
(*    truthiness.  Shape identifiers (svgId, element.id) are only compared *)
(*    for equality and tested for truthiness; they are TLA+ strings, with  *)
(*    NoId standing for None or the empty identifier.                      *)
(*  - Drawing coordinates are integers counting 1/8 drawing unit, so box   *)
(*    centres are exact in 1/16 unit (and exact as binary floats).         *)
(*  - scale_to_mm is the positive rational num/den.  Every length of one   *)
(*    footprint is (an integer number of 1/16 unit) * scale_to_mm and is   *)
(*    kept as that integer; drills, which mix in absolute millimetres,     *)
(*    are rationals [n, d].                                                *)
(***************************************************************************)
EXTENDS Integers, Sequences, FiniteSets, TLC

VARIABLES pc, fzpz_file, fzp, namelist, svg, pcb_image, connectors, real_path,
          scale_to_mm, y_coords, min_x, min_y, max_x, max_y, pads,
          footprint, symbol, warnings

vars == <<pc, fzpz_file, fzp, namelist, svg, pcb_image, connectors, real_path,
          scale_to_mm, y_coords, min_x, min_y, max_x, max_y, pads,
          footprint, symbol, warnings>>

(***************************************************************************)
(* Texts                                                                   *)
(***************************************************************************)
sConnector == <<"c","o","n","n","e","c","t","o","r">>
sPassive == <<"p","a","s","s","i","v","e">>
sPcb == <<"p","c","b">>
sSchematic == <<"s","c","h","e","m","a","t","i","c">>
sDotSvg == <<".","s","v","g">>
sDotFzp == <<".","f","z","p">>
sDotFzpz == <<".","f","z","p","z">>

UpperAlpha == <<"A","B","C","D","E","F","G","H","I","J","K","L","M",
                "N","O","P","Q","R","S","T","U","V","W","X","Y","Z">>
LowerAlpha == <<"a","b","c","d","e","f","g","h","i","j","k","l","m",
                "n","o","p","q","r","s","t","u","v","w","x","y","z">>
DigitChars == <<"0","1","2","3","4","5","6","7","8","9">>

\* str.lower() on one character
LowerChar(c) ==
    IF \E i \in 1..26 : UpperAlpha[i] = c
    THEN LowerAlpha[CHOOSE i \in 1..26 : UpperAlpha[i] = c]
    ELSE c

\* str.lower()
Lower(s) == [i \in 1..Len(s) |-> LowerChar(s[i])]

\* str.startswith(p)
StartsWith(s, p) == Len(p) <= Len(s) /\ SubSeq(s, 1, Len(p)) = p

\* str.endswith(p)
EndsWith(s, p) == Len(p) <= Len(s) /\ SubSeq(s, Len(s) - Len(p) + 1, Len(s)) = p

\* p in s
Contains(s, p) == \E i \in 0..(Len(s) - Len(p)) : SubSeq(s, i + 1, i + Len(p)) = p

\* s.replace(old, ''): every non-overlapping occurrence, left to right
RECURSIVE Remove(_, _)
Remove(s, old) ==
    IF Len(s) < Len(old) THEN s
    ELSE IF StartsWith(s, old) THEN Remove(SubSeq(s, Len(old) + 1, Len(s)), old)
    ELSE <<s[1]>> \o Remove(Tail(s), old)

\* s.replace('\\', '/')
SlashNormalize(s) == [i \in 1..Len(s) |-> IF s[i] = "\\" THEN "/" ELSE s[i]]

\* os.path.basename: what follows the last '/'
Basename(s) ==
    LET cuts == {i \in 1..Len(s) : s[i] = "/"}
    IN IF cuts = {} THEN s
       ELSE SubSeq(s, (CHOOSE i \in cuts : \A j \in cuts : j <= i) + 1, Len(s))

\* str.strip() for the one whitespace character of the alphabet
RECURSIVE LStrip(_)
LStrip(s) == IF s # <<>> /\ s[1] = " " THEN LStrip(Tail(s)) ELSE s
RECURSIVE RStrip(_)
RStrip(s) == IF s # <<>> /\ s[Len(s)] = " " THEN RStrip(SubSeq(s, 1, Len(s) - 1)) ELSE s
Strip(s) == RStrip(LStrip(s))

IsDigit(c) == \E i \in 1..10 : DigitChars[i] = c
DigitVal(c) == (CHOOSE i \in 1..10 : DigitChars[i] = c) - 1

\* the digits and single separating underscores int() accepts after the sign
IntBody(s) ==
    /\ s # <<>>
    /\ \A i \in 1..Len(s) : IsDigit(s[i]) \/ s[i] = "_"
    /\ IsDigit(s[1]) /\ IsDigit(s[Len(s)])
    /\ \A i \in 1..(Len(s) - 1) : ~(s[i] = "_" /\ s[i + 1] = "_")

RECURSIVE DigitsValue(_, _)
DigitsValue(s, acc) ==
    IF s = <<>> THEN acc
    ELSE IF s[1] = "_" THEN DigitsValue(Tail(s), acc)
    ELSE DigitsValue(Tail(s), 10 * acc + DigitVal(s[1]))

\* int(s): ok is FALSE where Python raises ValueError
IntParse(s) ==
    LET t == Strip(s)
        signed == t # <<>> /\ t[1] \in {"+", "-"}
        body == IF signed THEN Tail(t) ELSE t
    IN IF IntBody(body)
       THEN [ok |-> TRUE,
             val |-> IF signed /\ t[1] = "-" THEN 0 - DigitsValue(body, 0)
                     ELSE DigitsValue(body, 0)]
       ELSE [ok |-> FALSE, val |-> 0]

\* str(n)
RECURSIVE NatStr(_)
NatStr(n) == IF n < 10 THEN <<DigitChars[n + 1]>>
             ELSE NatStr(n \div 10) \o <<DigitChars[(n % 10) + 1]>>
Str(n) == IF n < 0 THEN <<"-">> \o NatStr(0 - n) ELSE NatStr(n)

NoId == ""
Truthy(x) == x # NoId

(***************************************************************************)
(* parse_metadata                                                          *)
(***************************************************************************)
\* lines 76-80: the pin number of a connector id
pin_num(cid) ==
    IF StartsWith(cid, sConnector)
    THEN LET r == IntParse(Remove(cid, sConnector))
         IN IF r.ok THEN Str(r.val + 1) ELSE cid
    ELSE cid

\* lines 62-74: description if it has text, else the name attribute;
\* cut to 15 characters; "passive" gives way to the id
final_name(conn) ==
    LET clean == Strip(conn.desc)
        n0 == IF conn.desc # <<>> /\ Len(clean) > 0 THEN clean ELSE conn.name
        n1 == IF Len(n0) > 15 THEN SubSeq(n0, 1, 15) ELSE n0
    IN IF Lower(n1) = sPassive THEN conn.id ELSE n1

\* lines 82-93: the last svgId of the connector's pcbView, and whether both
\* copper layers are named
LastSvgId(ps) == IF ps = <<>> THEN NoId ELSE ps[Len(ps)].svgId
IsTht(ps) == (\E i \in 1..Len(ps) : ps[i].layer = "copper0")
             /\ (\E i \in 1..Len(ps) : ps[i].layer = "copper1")

\* lines 59-101: one connector element
ParseConnector(conn) ==
    [id |-> conn.id, name |-> final_name(conn), pin |-> pin_num(conn.id),
     svg_id |-> LastSvgId(conn.ps), is_tht |-> IsTht(conn.ps)]

\* list.sort(key=int(pin)): stable; the keys are computed first, so a pin
\* that is no integer leaves the list as it was (lines 103-105)
RECURSIVE InsertByKey(_, _)
InsertByKey(sorted, c) ==
    IF sorted = <<>> THEN <<c>>
    ELSE IF IntParse(c.pin).val < IntParse(sorted[Len(sorted)].pin).val
         THEN InsertByKey(SubSeq(sorted, 1, Len(sorted) - 1), c) \o <<sorted[Len(sorted)]>>
         ELSE sorted \o <<c>>
RECURSIVE SortedByPin(_)
SortedByPin(cs) ==
    IF cs = <<>> THEN <<>>
    ELSE InsertByKey(SortedByPin(SubSeq(cs, 1, Len(cs) - 1)), cs[Len(cs)])
SortConnectors(cs) ==
    IF \A i \in 1..Len(cs) : IntParse(cs[i].pin).ok THEN SortedByPin(cs) ELSE cs

ParsedConnectors(doc) ==
    SortConnectors([i \in 1..Len(doc.conns) |-> ParseConnector(doc.conns[i])])

(***************************************************************************)
(* find_file_in_zip                                                        *)
(***************************************************************************)
NotFound == [ok |-> FALSE, path |-> <<>>]
Found(f) == [ok |-> TRUE, path |-> f]

IsBestAnyPcb(c) == Contains(Lower(c), sPcb)

\* line 30: the candidates kept when the hint names a pcb drawing
IsBest(c) == Contains(Lower(c), sPcb) /\ ~Contains(Lower(c), sSchematic)

\* lines 21 and 36: an entry that looks like a pcb drawing
IsPcbSvg(f) == EndsWith(f, sDotSvg) /\ Contains(Lower(f), sPcb)

\* lines 19-39; ok is FALSE where the code raises ValueError or KeyError
find_file_in_zip(names, partial_name) ==
    LET target == Basename(SlashNormalize(partial_name))
        HasTarget(f) == EndsWith(f, target)
        candidates == SelectSeq(names, HasTarget)
        best == SelectSeq(candidates, IsBest)
        fallback == SelectSeq(names, IsPcbSvg)
    IN IF partial_name = <<>>
       THEN IF fallback # <<>> THEN Found(fallback[1]) ELSE NotFound
       ELSE IF /\ Len(candidates) > 1
               /\ Contains(target, sPcb) /\ Contains(partial_name, sPcb)
               /\ best # <<>>
            THEN Found(best[1])
       ELSE IF candidates # <<>> THEN Found(candidates[1])
       ELSE IF fallback # <<>> THEN Found(fallback[1])
       ELSE NotFound

(***************************************************************************)
(* The run of process(): one action per stage, in program order            *)
(***************************************************************************)
PosInf == 1000000
NegInf == -1000000
FallbackScale == [num |-> 254, den |-> 10000]
NoFootprint == [written |-> FALSE, pads |-> <<>>, h_total |-> 0]
NoSymbol == [written |-> FALSE, pins |-> <<>>, width |-> 0, height |-> 0]

\* lines 307-326: the two fatal exits, else parse_metadata
process ==
    /\ pc = "process"
    /\ IF ~EndsWith(fzpz_file, sDotFzpz)
       THEN pc' = "done" /\ UNCHANGED <<pcb_image, connectors>>
       ELSE IF SelectSeq(namelist, LAMBDA f : EndsWith(f, sDotFzp)) = <<>>
       THEN pc' = "done" /\ UNCHANGED <<pcb_image, connectors>>
       ELSE /\ pcb_image' = fzp.image
            /\ connectors' = ParsedConnectors(fzp)
            /\ pc' = "generate_footprint"
    /\ UNCHANGED <<fzpz_file, fzp, namelist, svg, real_path, scale_to_mm, y_coords,
                   min_x, min_y, max_x, max_y, pads, footprint, symbol, warnings>>

AfterSkipRaised == "raised"

\* the return of lines 161 and 230 leaves generate_footprint; process() goes on
\* at line 330
AfterSkip == "generate_symbol"

\* lines 156-161: resolve and read the drawing, or skip the footprint
ResolveDrawing ==
    /\ pc = "generate_footprint"
    /\ real_path' = find_file_in_zip(namelist, pcb_image)
    /\ IF real_path'.ok
       THEN pc' = "calibrate" /\ UNCHANGED warnings
       ELSE pc' = AfterSkip /\ warnings' = warnings \cup {"svg_not_found"}
    /\ UNCHANGED <<fzpz_file, fzp, namelist, svg, pcb_image, connectors, scale_to_mm,
                   y_coords, min_x, min_y, max_x, max_y, pads, footprint, symbol>>

(***************************************************************************)
(* The drawing, as svgelements hands it over: svg.nodes[1] is the SVG      *)
(* document (a Group); every other node names its parent group, which      *)
(* comes before it.  bbox is <<x0, y0, x1, y1>>, or NoBBox where bbox()    *)
(* returns nothing or raises.                                              *)
(***************************************************************************)
NoBBox == <<>>
RootNode == [kind |-> "group", id |-> NoId, parent |-> 0, bbox |-> NoBBox, pts_ok |-> FALSE]

\* iteration over a Group: its children, in document order
Kids(nodes, g) ==
    SelectSeq([i \in 1..Len(nodes) |-> i], LAMBDA i : nodes[i].parent = g)

\* Group.select(): every descendant, flattened, parents first
RECURSIVE SelectFrom(_, _, _)
SelectFrom(nodes, kids, k) ==
    IF k > Len(kids) THEN <<>>
    ELSE <<kids[k]>>
         \o (IF nodes[kids[k]].kind = "group"
             THEN SelectFrom(nodes, Kids(nodes, kids[k]), 1) ELSE <<>>)
         \o SelectFrom(nodes, kids, k + 1)

\* SVG.elements(): the document itself, then select() (lines 127 and 225)
Elements(nodes) == <<1>> \o SelectFrom(nodes, Kids(nodes, 1), 1)

(***************************************************************************)
(* calculate_scale_from_pitch                                              *)
(***************************************************************************)
\* line 112
ConnIds(cs) == {cs[i].svg_id : i \in 1..Len(cs)} \ {NoId}

\* lines 115-125: the vertical centres (1/16 unit) found from element e
RECURSIVE find_centroids(_, _, _)
RECURSIVE CentroidsOfKids(_, _, _, _)
find_centroids(nodes, conn_ids, e) ==
    IF nodes[e].kind = "group"
    THEN CentroidsOfKids(nodes, conn_ids, Kids(nodes, e), 1)
    ELSE IF nodes[e].id \in conn_ids /\ nodes[e].bbox # NoBBox
         THEN <<nodes[e].bbox[2] + nodes[e].bbox[4]>>
         ELSE <<>>
CentroidsOfKids(nodes, conn_ids, kids, k) ==
    IF k > Len(kids) THEN <<>>
    ELSE find_centroids(nodes, conn_ids, kids[k]) \o CentroidsOfKids(nodes, conn_ids, kids, k + 1)

\* lines 127-128
RECURSIVE CentroidsOver(_, _, _, _)
CentroidsOver(nodes, conn_ids, elems, k) ==
    IF k > Len(elems) THEN <<>>
    ELSE find_centroids(nodes, conn_ids, elems[k]) \o CentroidsOver(nodes, conn_ids, elems, k + 1)
YCoords(drawing, cs) ==
    IF drawing.ok
    THEN CentroidsOver(drawing.nodes, ConnIds(cs), Elements(drawing.nodes), 1)
    ELSE <<>>

\* list.sort() of numbers (line 134)
RECURSIVE InsertNum(_, _)
InsertNum(sorted, x) ==
    IF sorted = <<>> THEN <<x>>
    ELSE IF x < sorted[Len(sorted)]
         THEN InsertNum(SubSeq(sorted, 1, Len(sorted) - 1), x) \o <<sorted[Len(sorted)]>>
         ELSE sorted \o <<x>>
RECURSIVE SortNums(_)
SortNums(q) ==
    IF q = <<>> THEN <<>> ELSE InsertNum(SortNums(SubSeq(q, 1, Len(q) - 1)), q[Len(q)])

\* lines 135-139: consecutive differences above 0.1 unit, i.e. above 1.6/16
Deltas(ys) ==
    LET all == [i \in 1..(Len(ys) - 1) |-> ys[i + 1] - ys[i]]
    IN SelectSeq(all, LAMBDA d : 10 * d > 16)

RoundTenthsDown(d16) == (10 * d16) \div 16

\* round(d, 1) of d = d16/16, in tenths: a multiple of 1/16 is an exact float,
\* so Python rounds it exactly, halves to the even tenth (line 143)
RoundTenths(d16) ==
    LET q == (10 * d16) \div 16
        r == (10 * d16) % 16
    IN IF r < 8 THEN q
       ELSE IF r > 8 THEN q + 1
       ELSE IF q % 2 = 0 THEN q ELSE q + 1

\* statistics.mode (Python 3.8 and later): the first value met among the most
\* frequent (line 144)
Count(q, x) == Cardinality({i \in 1..Len(q) : q[i] = x})
Mode(q) ==
    q[CHOOSE i \in 1..Len(q) :
        /\ \A j \in 1..Len(q) : Count(q, q[j]) <= Count(q, q[i])
        /\ \A j \in 1..(i - 1) : Count(q, q[j]) < Count(q, q[i])]

\* lines 130-149 on the collected centres; 2.54 / (t/10) = 254 / (10 t)
ScaleFromCentres(ycs) ==
    LET deltas == Deltas(SortNums(ycs))
        rounded == [i \in 1..Len(deltas) |-> RoundTenths(deltas[i])]
    IN IF Len(ycs) < 2 THEN FallbackScale
       ELSE IF deltas = <<>> THEN FallbackScale
       ELSE IF Mode(rounded) = 0 THEN FallbackScale  \* ZeroDivisionError, line 151
       ELSE [num |-> 254, den |-> 10 * Mode(rounded)]

\* lines 109-153: a drawing that does not parse raises inside the try
calculate_scale_from_pitch(drawing, cs) ==
    IF ~drawing.ok THEN FallbackScale ELSE ScaleFromCentres(YCoords(drawing, cs))

(***************************************************************************)
(* generate_footprint: the walk                                            *)
(***************************************************************************)
\* line 169: the last connector of the table that names svg id k
conn_map(cs, k) == cs[CHOOSE i \in 1..Len(cs) :
                        cs[i].svg_id = k /\ \A j \in (i + 1)..Len(cs) : cs[j].svg_id # k]

\* line 175: what a group hands to its children
Inherit(inherited_id, own) == IF Truthy(inherited_id) THEN inherited_id ELSE own

\* line 178: the identifier a shape is looked up by
EffectiveId(own, inherited_id) == IF Truthy(own) THEN own ELSE inherited_id

\* lines 172-179: the shapes reached from element e, each with its eid
RECURSIVE process_element(_, _, _)
RECURSIVE ProcessKids(_, _, _, _)
process_element(nodes, e, inherited_id) ==
    IF nodes[e].kind = "group"
    THEN ProcessKids(nodes, Kids(nodes, e), 1, Inherit(inherited_id, nodes[e].id))
    ELSE <<[node |-> e, eid |-> EffectiveId(nodes[e].id, inherited_id)]>>
ProcessKids(nodes, kids, k, inherited_id) ==
    IF k > Len(kids) THEN <<>>
    ELSE process_element(nodes, kids[k], inherited_id) \o ProcessKids(nodes, kids, k + 1, inherited_id)

\* lines 225-226
RECURSIVE Lookups(_, _, _)
Lookups(nodes, elems, k) ==
    IF k > Len(elems) THEN <<>>
    ELSE process_element(nodes, elems[k], NoId) \o Lookups(nodes, elems, k + 1)

Min2(a, b) == IF b < a THEN b ELSE a
Max2(a, b) == IF b > a THEN b ELSE a

\* v millimetres, v = k16/16 * scale * p/q
Mm(k16, scale, p, q) == [n |-> k16 * scale.num * p, d |-> 16 * scale.den * q]
RatLess(a, b) == a.n * b.d < b.n * a.d
RatEq(a, b) == a.n * b.d = b.n * a.d
RatMax(a, b) == IF RatLess(a, b) THEN b ELSE a
Zero == [n |-> 0, d |-> 1]

\* lines 197-209
Shape(kind) ==
    IF kind = "circle" THEN "circle"
    ELSE IF kind = "rect" THEN "rect"
    ELSE IF kind = "path" THEN "custom"
    ELSE "rect"

\* lines 198-207
Drill(kind, is_tht, w, h, scale) ==
    IF kind = "circle"
    THEN IF is_tht THEN RatMax([n |-> 6, d |-> 10], Mm(Min2(w, h), scale, 65, 100)) ELSE Zero
    ELSE IF kind = "rect"
    THEN IF is_tht THEN Mm(Min2(w, h), scale, 6, 10) ELSE Zero
    ELSE Zero

\* lines 215-221: the sampled outline, empty when sampling raises
Points(node) ==
    IF node.kind = "path" /\ node.pts_ok
    THEN <<<<2 * node.bbox[1], 2 * node.bbox[2]>>, <<2 * node.bbox[3], 2 * node.bbox[4]>>>>
    ELSE <<>>

\* lines 186-221: the pad of a matched shape with a bounding box
PadDef(node, data, scale) ==
    LET w == 2 * (node.bbox[3] - node.bbox[1])
        h == 2 * (node.bbox[4] - node.bbox[2])
    IN [pin |-> data.pin,
        type |-> IF data.is_tht THEN "thru_hole" ELSE "smd",
        shape |-> Shape(node.kind),
        pos |-> <<node.bbox[1] + node.bbox[3], node.bbox[2] + node.bbox[4]>>,
        size |-> <<w, h>>,
        layers |-> IF data.is_tht THEN "*.Cu *.Mask" ELSE "F.Cu F.Mask F.Paste",
        drill |-> Drill(node.kind, data.is_tht, w, h, scale),
        points |-> Points(node)]

\* lines 179-223, over the lookups in order
RECURSIVE WalkFrom(_, _, _, _, _, _)
WalkFrom(nodes, cs, scale, looks, k, st) ==
    IF k > Len(looks) THEN st
    ELSE LET node == nodes[looks[k].node]
             eid == looks[k].eid
         IN IF eid \notin ConnIds(cs) THEN WalkFrom(nodes, cs, scale, looks, k + 1, st)
            ELSE IF node.bbox = NoBBox
            THEN WalkFrom(nodes, cs, scale, looks, k + 1,
                          [st EXCEPT !.warns = @ \cup {"no_bbox"}])
            ELSE LET pad == PadDef(node, conn_map(cs, eid), scale)
                 IN WalkFrom(nodes, cs, scale, looks, k + 1,
                      [pads |-> Append(st.pads, pad),
                       min_x |-> Min2(st.min_x, pad.pos[1]),
                       min_y |-> Min2(st.min_y, pad.pos[2]),
                       max_x |-> Max2(st.max_x, pad.pos[1]),
                       max_y |-> Max2(st.max_y, pad.pos[2]),
                       warns |-> IF node.kind = "path" /\ ~node.pts_ok
                                 THEN st.warns \cup {"sampling_failed"} ELSE st.warns])

Walked(drawing, cs, scale) ==
    WalkFrom(drawing.nodes, cs, scale, Lookups(drawing.nodes, Elements(drawing.nodes), 1), 1,
             [pads |-> <<>>, min_x |-> PosInf, min_y |-> PosInf,
              max_x |-> NegInf, max_y |-> NegInf, warns |-> {}])

TwiceCentreOfLow(lo, hi) == lo + lo

\* lines 232-233, doubled: 2 * cx_total in 1/16 unit * scale
TwiceCentre(lo, hi) == lo + hi

\* lines 242-256: one pad record; pos_x and pos_y count 1/32 unit * scale
PadRecord(p, cx2, cy2) ==
    [pin |-> p.pin, type |-> p.type,
     shape |-> p.shape,
     pos_x |-> 2 * p.pos[1] - cx2, pos_y |-> 2 * p.pos[2] - cy2,
     size |-> p.size, layers |-> p.layers, drill |-> p.drill,
     polygon |-> IF p.shape = "custom" /\ p.points # <<>>
                 THEN [i \in 1..Len(p.points) |->
                         <<2 * p.points[i][1] - cx2, 2 * p.points[i][2] - cy2>>]
                 ELSE <<>>]

\* lines 163-166
Calibrate ==
    /\ pc = "calibrate"
    /\ y_coords' = YCoords(svg, connectors)
    /\ scale_to_mm' = calculate_scale_from_pitch(svg, connectors)
    /\ min_x' = PosInf /\ min_y' = PosInf /\ max_x' = NegInf /\ max_y' = NegInf
    /\ warnings' = IF svg.ok /\ Len(y_coords') < 2
                   THEN warnings \cup {"too_few_pins"} ELSE warnings
    /\ pc' = "walk"
    /\ UNCHANGED <<fzpz_file, fzp, namelist, svg, pcb_image, connectors, real_path,
                   pads, footprint, symbol>>

\* lines 168-226; SVG.parse at line 168 is outside every try
Walk ==
    /\ pc = "walk"
    /\ IF ~svg.ok
       THEN /\ pc' = "raised"
            /\ UNCHANGED <<min_x, min_y, max_x, max_y, pads, warnings>>
       ELSE LET st == Walked(svg, connectors, scale_to_mm)
            IN /\ pads' = st.pads
               /\ min_x' = st.min_x /\ min_y' = st.min_y
               /\ max_x' = st.max_x /\ max_y' = st.max_y
               /\ warnings' = warnings \cup st.warns
               /\ pc' = "emit_footprint"
    /\ UNCHANGED <<fzpz_file, fzp, namelist, svg, pcb_image, connectors, real_path,
                   scale_to_mm, y_coords, footprint, symbol>>

\* lines 228-258
EmitFootprint ==
    /\ pc = "emit_footprint"
    /\ IF min_x = PosInf
       THEN /\ warnings' = warnings \cup {"no_pads"}
            /\ pc' = AfterSkip
            /\ UNCHANGED footprint
       ELSE /\ footprint' =
                 [written |-> TRUE,
                  pads |-> [i \in 1..Len(pads) |->
                              PadRecord(pads[i], TwiceCentre(min_x, max_x),
                                        TwiceCentre(min_y, max_y))],
                  h_total |-> max_y - min_y]
            /\ pc' = "generate_symbol"
            /\ UNCHANGED warnings
    /\ UNCHANGED <<fzpz_file, fzp, namelist, svg, pcb_image, connectors, real_path,
                   scale_to_mm, y_coords, min_x, min_y, max_x, max_y, pads, symbol>>

(***************************************************************************)
(* generate_symbol; lengths in 1/100 mm                                    *)
(***************************************************************************)
HalfDown(count) == count \div 2

\* line 262
Half(count) == (count + 1) \div 2

\* line 264
SymHeight(cs) == Max2(Half(Len(cs)) * 254, 508) + 254

\* lines 265-266
MaxNameLen(cs) ==
    IF cs = <<>> THEN 5
    ELSE CHOOSE m \in {Len(cs[i].name) : i \in 1..Len(cs)} :
            \A i \in 1..Len(cs) : Len(cs[i].name) <= m
SymWidth(cs) == Max2(1524, MaxNameLen(cs) * 150)

\* lines 280-300: the pin record of the connector at index i (from 0)
SymPin(cs, i) ==
    LET y_pos == SymHeight(cs) \div 2 - 127
        half == Half(Len(cs))
    IN IF i < half
       THEN [name |-> cs[i + 1].name, number |-> cs[i + 1].pin, type |-> "passive",
             x |-> 0 - SymWidth(cs) \div 2 - 254, y |-> y_pos - i * 254, angle |-> 0]
       ELSE [name |-> cs[i + 1].name, number |-> cs[i + 1].pin, type |-> "passive",
             x |-> SymWidth(cs) \div 2 + 254, y |-> y_pos - (i - half) * 254, angle |-> 180]

\* lines 260-305, called at line 331
generate_symbol ==
    /\ pc = "generate_symbol"
    /\ symbol' = [written |-> TRUE,
                  pins |-> [k \in 1..Len(connectors) |-> SymPin(connectors, k - 1)],
                  width |-> SymWidth(connectors), height |-> SymHeight(connectors)]
    /\ pc' = "done"
    /\ UNCHANGED <<fzpz_file, fzp, namelist, svg, pcb_image, connectors, real_path,
                   scale_to_mm, y_coords, min_x, min_y, max_x, max_y, pads, footprint,
                   warnings>>

(***************************************************************************)
(* Inputs                                                                  *)
(***************************************************************************)
nVCC == <<"V","C","C">>
nPassive == <<"P","a","s","s","i","v","e">>
nLong == <<"a","_","v","e","r","y","_","l","o","n","g","_","p","i","n","_","n","a","m","e">>
dGND == <<" ","G","N","D"," ">>
fFzpz == <<"p","a","r","t",".","f","z","p","z">>
fZip == <<"p","a","r","t",".","z","i","p">>
eFzp == <<"p","a","r","t",".","f","z","p">>
eSchem == <<"s","c","h","e","m","a","t","i","c","/","u","_","p","c","b",".","s","v","g">>
ePcb == <<"p","c","b","/","u","_","p","c","b",".","s","v","g">>
eSchemUp == <<"S","c","h","e","m","a","t","i","c","/","u","_","p","c","b",".","s","v","g">>
ePcbU == <<"p","c","b","/","u",".","s","v","g">>
ePcbUp == <<"P","C","B","/","v",".","s","v","g">>
eBb == <<"b","b","/","u",".","s","v","g">>
hPcb == <<"i","c","o","n","s","/","u","_","p","c","b",".","s","v","g">>
hPcbBack == <<"i","c","o","n","s","\\","u","_","p","c","b",".","s","v","g">>
hU == <<"u",".","s","v","g">>
hGone == <<"g","o","n","e",".","s","v","g">>
hDir == <<"s","v","g","/">>

\* every sequence over S of length at most n
RECURSIVE SeqsUpTo(_, _)
SeqsUpTo(S, n) ==
    IF n = 0 THEN {<<>>}
    ELSE LET prev == SeqsUpTo(S, n - 1)
         IN prev \cup {Append(q, x) : q \in prev, x \in S}

\* every concatenation of at most n of the pieces P
RECURSIVE Concats(_, _)
Concats(P, n) ==
    IF n = 0 THEN {<<>>}
    ELSE LET prev == Concats(P, n - 1)
         IN prev \cup {q \o x : q \in prev, x \in P}

MaxIdPieces == 3
IdPieces == {sConnector, <<"0">>, <<"1">>, <<"9">>, <<"-">>, <<" ">>, <<"_">>, <<"x">>}
Ids == Concats(IdPieces, MaxIdPieces) \ {<<>>}

PViews == {<<>>,
           <<[layer |-> "copper0", svgId |-> "a"]>>,
           <<[layer |-> "copper0", svgId |-> "b"], [layer |-> "copper1", svgId |-> "a"]>>,
           <<[layer |-> "copper1", svgId |-> "a"], [layer |-> "silkscreen", svgId |-> NoId]>>}

SortIds == {sConnector \o <<"0">>, sConnector \o <<"1">>, sConnector \o <<"1","0">>,
            sConnector \o <<"9">>, <<"x">>}

MetaDocs ==
    {[image |-> hPcb, conns |-> <<[id |-> i, name |-> nVCC, desc |-> <<>>, ps |-> <<>>]>>] :
        i \in Ids}
    \cup {[image |-> <<>>, conns |-> <<[id |-> sConnector \o <<"3">>, name |-> n, desc |-> d, ps |-> p]>>] :
        n \in {nVCC, nPassive, nLong}, d \in {<<>>, dGND, <<" ">>}, p \in PViews}
    \cup {[image |-> hPcb,
           conns |-> [k \in 1..Len(q) |-> [id |-> q[k], name |-> nVCC, desc |-> <<>>, ps |-> <<>>]]] :
        q \in SeqsUpTo(SortIds, 3)}

Idle ==
    /\ scale_to_mm = [num |-> 1, den |-> 1]
    /\ y_coords = <<>>
    /\ min_x = PosInf /\ min_y = PosInf /\ max_x = NegInf /\ max_y = NegInf
    /\ pads = <<>>
    /\ footprint = NoFootprint
    /\ symbol = NoSymbol
    /\ warnings = {}

EmptySvg == [ok |-> TRUE, nodes |-> <<RootNode>>]

\* parse_metadata on its own
InitMeta ==
    /\ pc = "process"
    /\ fzpz_file = fFzpz
    /\ namelist = <<eFzp>>
    /\ fzp \in MetaDocs
    /\ svg = EmptySvg
    /\ pcb_image = <<>> /\ connectors = <<>>
    /\ real_path = NotFound
    /\ Idle
SpecMeta == InitMeta /\ [][process]_vars

MaxEntries == 3
Entries == {eFzp, eSchem, ePcb, eSchemUp, ePcbU, ePcbUp, eBb}
Hints == {<<>>, hPcb, hPcbBack, hU, hGone, hDir}

\* find_file_in_zip on its own, as generate_footprint calls it
InitZip ==
    /\ pc = "generate_footprint"
    /\ fzpz_file = fFzpz
    /\ namelist \in SeqsUpTo(Entries, MaxEntries)
    /\ fzp = [image |-> <<>>, conns |-> <<>>]
    /\ svg = EmptySvg
    /\ pcb_image \in Hints /\ connectors = <<>>
    /\ real_path = NotFound
    /\ Idle
SpecZip == InitZip /\ [][ResolveDrawing]_vars

\* a connector table as parse_metadata leaves it: ids connector0, connector1, ...
\* in order, q[k] = <<svg id, through-hole>>
TableOf(q, names) ==
    [k \in 1..Len(q) |->
        [id |-> sConnector \o Str(k - 1), name |-> names[k], pin |-> Str(k),
         svg_id |-> q[k][1], is_tht |-> q[k][2]]]
AllVCC == [k \in 1..8 |-> nVCC]

\* a drawing: a chain of nested groups (outermost first, by id) under the
\* document, and shapes <<kind, id>>; shape k takes its box, its place (in the
\* innermost group or directly under the document) and its sampling outcome
\* from layout[k]
Drawing(chain, shapes, layout) ==
    [ok |-> TRUE,
     nodes |-> <<RootNode>>
        \o [g \in 1..Len(chain) |->
              [kind |-> "group", id |-> chain[g], parent |-> g, bbox |-> NoBBox, pts_ok |-> FALSE]]
        \o [k \in 1..Len(shapes) |->
              [kind |-> shapes[k][1], id |-> shapes[k][2],
               parent |-> IF layout[k].deep THEN Len(chain) + 1 ELSE 1,
               bbox |-> layout[k].bbox, pts_ok |-> layout[k].pts_ok]]]
BadSvg == [ok |-> FALSE, nodes |-> <<RootNode>>]

B1 == <<0, 0, 16, 16>>
B2 == <<80, 0, 128, 32>>
B3 == <<0, 80, 8, 88>>
B4 == <<80, 80, 96, 96>>
Place(b, deep, ok) == [bbox |-> b, deep |-> deep, pts_ok |-> ok]
Layouts ==
    {<<Place(B1, TRUE, TRUE), Place(B2, TRUE, TRUE), Place(B3, TRUE, FALSE), Place(B4, TRUE, TRUE)>>,
     <<Place(B2, FALSE, FALSE), Place(B1, TRUE, TRUE), Place(B4, FALSE, TRUE), Place(B3, TRUE, TRUE)>>,
     <<Place(B1, TRUE, TRUE), Place(B3, TRUE, TRUE), Place(B3, FALSE, TRUE), Place(B2, TRUE, FALSE)>>,
     <<Place(NoBBox, TRUE, TRUE), Place(B4, TRUE, FALSE), Place(B2, FALSE, TRUE), Place(B1, TRUE, TRUE)>>}
GroupChains == {<<>>, <<"a">>, <<"a", "b">>, <<NoId, "b">>, <<"b", NoId>>}
ShapeOpts == {<<"circle", "a">>, <<"circle", "b">>, <<"circle", NoId>>, <<"rect", "a">>,
              <<"rect", NoId>>, <<"path", "b">>, <<"path", NoId>>, <<"polygon", "a">>}
MaxShapes == 2
FootDrawings ==
    {Drawing(chain, shapes, layout) :
        chain \in GroupChains, shapes \in SeqsUpTo(ShapeOpts, MaxShapes),
        layout \in Layouts}
FootTables ==
    {TableOf(q, AllVCC) :
        q \in {<<<<"a", TRUE>>>>, <<<<"a", FALSE>>, <<"b", TRUE>>>>,
               <<<<"a", TRUE>>, <<"a", FALSE>>>>, <<<<"b", FALSE>>, <<NoId, TRUE>>>>}}

\* generate_footprint from the resolved drawing on
InitFoot ==
    /\ pc = "calibrate"
    /\ fzpz_file = fFzpz
    /\ namelist = <<eFzp, ePcb>>
    /\ fzp = [image |-> hPcb, conns |-> <<>>]
    /\ svg \in FootDrawings
    /\ pcb_image = hPcb /\ connectors \in FootTables
    /\ real_path = Found(ePcb)
    /\ Idle
NextFoot == Calibrate \/ Walk \/ EmitFootprint
SpecFoot == InitFoot /\ [][NextFoot]_vars

\* calculate_scale_from_pitch on its own: circles directly under the document
MaxCentres == 4
YBoxes == {<<0, 0, 8, 8>>, <<0, 1, 8, 8>>, <<0, 4, 8, 8>>, <<0, 7, 8, 8>>, <<0, 80, 8, 88>>, NoBBox}
ScaleShapes == ({"a"} \X YBoxes) \cup {<<NoId, <<0, 40, 8, 48>>>>, <<"b", <<0, 40, 8, 48>>>>}
FlatDrawing(q) ==
    [ok |-> TRUE,
     nodes |-> <<RootNode>>
        \o [k \in 1..Len(q) |->
              [kind |-> "circle", id |-> q[k][1], parent |-> 1, bbox |-> q[k][2], pts_ok |-> FALSE]]]
\* the same shapes inside one <g id="a">, itself no connector shape
GroupedDrawing(q) ==
    [ok |-> TRUE,
     nodes |-> <<RootNode, [kind |-> "group", id |-> "a", parent |-> 1, bbox |-> <<0, 0, 8, 8>>, pts_ok |-> FALSE]>>
        \o [k \in 1..Len(q) |->
              [kind |-> "circle", id |-> q[k][1], parent |-> 2, bbox |-> q[k][2], pts_ok |-> FALSE]]]
ScaleLists == SeqsUpTo(ScaleShapes, MaxCentres)
InitScale ==
    /\ pc = "calibrate"
    /\ fzpz_file = fFzpz
    /\ namelist = <<eFzp, ePcb>>
    /\ fzp = [image |-> hPcb, conns |-> <<>>]
    /\ \/ svg = BadSvg
       \/ \E q \in ScaleLists : svg = FlatDrawing(q)
       \/ \E q \in ScaleLists : svg = GroupedDrawing(q)
    /\ pcb_image = hPcb /\ connectors = TableOf(<<<<"a", TRUE>>>>, AllVCC)
    /\ real_path = Found(ePcb)
    /\ Idle
SpecScale == InitScale /\ [][Calibrate]_vars

\* generate_symbol on its own
MaxPins == 4
nEleven == SubSeq(nLong, 1, 11)
nFifteen == SubSeq(nLong, 1, 15)
SymTables ==
    {TableOf([k \in 1..Len(names) |-> <<NoId, FALSE>>], names) :
        names \in SeqsUpTo({nVCC, nEleven, nFifteen}, MaxPins)}
InitSym ==
    /\ pc = "generate_symbol"
    /\ fzpz_file = fFzpz
    /\ namelist = <<eFzp>>
    /\ fzp = [image |-> <<>>, conns |-> <<>>]
    /\ svg = EmptySvg
    /\ pcb_image = <<>> /\ connectors \in SymTables
    /\ real_path = NotFound
    /\ warnings = {"svg_not_found"}
    /\ scale_to_mm = [num |-> 1, den |-> 1]
    /\ y_coords = <<>>
    /\ min_x = PosInf /\ min_y = PosInf /\ max_x = NegInf /\ max_y = NegInf
    /\ pads = <<>>
    /\ footprint = NoFootprint
    /\ symbol = NoSymbol
SpecSym == InitSym /\ [][generate_symbol]_vars

\* the whole of process()
BothLayers(sid) == <<[layer |-> "copper0", svgId |-> sid], [layer |-> "copper1", svgId |-> sid]>>
TopLayer(sid) == <<[layer |-> "copper1", svgId |-> sid]>>
El(k, name, desc, ps) == [id |-> sConnector \o Str(k), name |-> name, desc |-> desc, ps |-> ps]
PipeDocs ==
    {[image |-> hPcb, conns |-> <<El(1, nVCC, <<>>, TopLayer("b")), El(0, nPassive, <<>>, BothLayers("a"))>>],
     [image |-> <<>>, conns |-> <<El(0, nLong, dGND, BothLayers("a"))>>],
     [image |-> hGone, conns |-> <<>>],
     [image |-> hU, conns |-> <<El(0, nVCC, <<>>, <<>>), El(1, nVCC, <<>>, TopLayer("a")),
                                El(2, nVCC, <<>>, BothLayers("b"))>>]}
PipeArchives == {<<eFzp, ePcb>>, <<eFzp, eBb>>, <<ePcb>>, <<eFzp>>, <<eSchem, eFzp, ePcb>>}
PipeDrawings ==
    {Drawing(chain, shapes, layout) :
        chain \in {<<>>, <<"a">>},
        shapes \in SeqsUpTo({<<"circle", "a">>, <<"path", NoId>>, <<"rect", "b">>}, 2),
        layout \in Layouts}
    \cup {BadSvg}
Init ==
    /\ pc = "process"
    /\ fzpz_file \in {fFzpz, fZip}
    /\ namelist \in PipeArchives
    /\ fzp \in PipeDocs
    /\ svg \in PipeDrawings
    /\ pcb_image = <<>> /\ connectors = <<>>
    /\ real_path = NotFound
    /\ Idle
Next == process \/ ResolveDrawing \/ Calibrate \/ Walk \/ EmitFootprint \/ generate_symbol
Spec == Init /\ [][Next]_vars

(***************************************************************************)
(* C1: in parse_metadata, a connector id of the form connector<N>, N a     *)
(* non-negative integer, gets the pin number str(N+1); every other id is   *)
(* its own pin number.                                                     *)
(***************************************************************************)
IsConnectorN(cid) ==
    /\ StartsWith(cid, sConnector)
    /\ Len(cid) > Len(sConnector)
    /\ \A i \in (Len(sConnector) + 1)..Len(cid) : IsDigit(cid[i])
NOf(cid) == DigitsValue(SubSeq(cid, Len(sConnector) + 1, Len(cid)), 0)
PinRule(c) == c.pin = IF IsConnectorN(c.id) THEN Str(NOf(c.id) + 1) ELSE c.id
\* C1: every connector of the parsed table obeys the pin number rule
C1_PinNumberRule ==
    pc = "generate_footprint" => \A i \in 1..Len(connectors) : PinRule(connectors[i])

(***************************************************************************)
(* C2: with a non-empty hint, find_file_in_zip returns the first candidate *)
(* (entry ending with the hint's base name) that names pcb and not         *)
(* schematic if the base name contains "pcb" and there is one, else the    *)
(* first candidate, else the first pcb .svg entry, and fails only when     *)
(* there is none of these.                                                 *)
(***************************************************************************)
C2_Base == Basename(SlashNormalize(pcb_image))
C2_C == SelectSeq(namelist, LAMBDA f : EndsWith(f, C2_Base))
C2_Sub == SelectSeq(C2_C, LAMBDA f : Contains(Lower(f), sPcb) /\ ~Contains(Lower(f), sSchematic))
C2_Fallback == SelectSeq(namelist, LAMBDA f : Contains(Lower(f), sPcb) /\ EndsWith(f, sDotSvg))
C2_Expected ==
    IF Contains(C2_Base, sPcb) /\ C2_Sub # <<>> THEN Found(C2_Sub[1])
    ELSE IF C2_C # <<>> THEN Found(C2_C[1])
    ELSE IF C2_Fallback # <<>> THEN Found(C2_Fallback[1])
    ELSE NotFound
C2_Resolved == pc \in {"calibrate", "generate_symbol"} /\ pcb_image # <<>>
\* C2: the resolved entry (or the failure) is the one the tiers above name
C2_FindFile == C2_Resolved => real_path = C2_Expected
C2_Witness ==
    /\ C2_Resolved /\ Contains(C2_Base, sPcb)
    /\ C2_Sub # <<>> /\ C2_Sub[1] # C2_C[1] /\ real_path = Found(C2_Sub[1])
(***************************************************************************)
(* C3: for every non-empty pad list, after centering, the union of the     *)
(* emitted pad bounding boxes (centre plus/minus half the size) has its    *)
(* centre at (0,0).  A pad's half width is size[1]/2 in 1/16 unit, that is *)
(* size[1] in the 1/32 unit of pos_x.                                      *)
(***************************************************************************)
SetMin(S) == CHOOSE m \in S : \A x \in S : m <= x
SetMax(S) == CHOOSE m \in S : \A x \in S : x <= m
Emitted == {footprint.pads[i] : i \in 1..Len(footprint.pads)}
\* C3, as claimed: the envelope of the emitted pad boxes is centred at (0,0)
C3_BoxesCentred ==
    footprint.written =>
        /\ SetMin({p.pos_x - p.size[1] : p \in Emitted})
             + SetMax({p.pos_x + p.size[1] : p \in Emitted}) = 0
        /\ SetMin({p.pos_y - p.size[2] : p \in Emitted})
             + SetMax({p.pos_y + p.size[2] : p \in Emitted}) = 0

\* C3 as amended: after centering, the envelope of the emitted pad centres
\* (least and greatest pad position on each axis) has its midpoint at (0,0)
C3_CentresCentred ==
    footprint.written =>
        /\ Emitted # {}
        /\ SetMin({p.pos_x : p \in Emitted}) + SetMax({p.pos_x : p \in Emitted}) = 0
        /\ SetMin({p.pos_y : p \in Emitted}) + SetMax({p.pos_y : p \in Emitted}) = 0
C3_Witness ==
    /\ footprint.written
    /\ \E p, q \in Emitted : p.size # q.size /\ p.pos_x # q.pos_x /\ p.pos_y # q.pos_y
    /\ ~C3_BoxesCentred

(***************************************************************************)
(* C4: once the descriptor is parsed, every degraded condition met during  *)
(* footprint generation is followed by symbol emission running to          *)
(* completion; the footprint is skipped only when the drawing entry is not *)
(* found or no pad matched, and the symbol library is written in every one *)
(* of these cases.                                                         *)
(***************************************************************************)
Degraded == {"svg_not_found", "too_few_pins", "no_bbox", "no_pads", "sampling_failed"}
\* C4: a run that met a degraded condition never ends in an exception, ends
\* with the symbol written, and skips the footprint exactly for a missing
\* drawing or an empty pad list
C4_DegradedStillEmitsSymbol ==
    warnings # {} =>
        /\ warnings \subseteq Degraded
        /\ pc # "raised"
        /\ pc \in {"calibrate", "walk", "emit_footprint", "generate_symbol", "done"}
        /\ pc = "done" =>
              /\ symbol.written
              /\ Len(symbol.pins) = Len(connectors)
              /\ ~footprint.written <=> (warnings \cap {"svg_not_found", "no_pads"} # {})
C4_Witness ==
    /\ pc = "done" /\ symbol.written /\ footprint.written
    /\ {"too_few_pins", "no_bbox", "sampling_failed"} \subseteq warnings
C4_WitnessSkipped ==
    /\ pc = "done" /\ symbol.written /\ ~footprint.written /\ "no_pads" \in warnings

(***************************************************************************)
(* C5: calculate_scale_from_pitch returns 0.0254 when fewer than 2 matched *)
(* centres are found, when no consecutive difference of the sorted centres *)
(* exceeds 0.1, or on an exception; otherwise 2.54 divided by the most     *)
(* frequent one-decimal rounding of the consecutive differences above 0.1. *)
(* Two matched centres 10 units apart give 0.254; the divisor is not zero. *)
(***************************************************************************)
C5_Ids == {connectors[i].svg_id : i \in 1..Len(connectors)} \ {NoId}
C5_Matched ==
    {n \in 2..Len(svg.nodes) :
        /\ svg.nodes[n].kind # "group"
        /\ svg.nodes[n].id \in C5_Ids
        /\ svg.nodes[n].bbox # NoBBox}
C5_Centre(n) == svg.nodes[n].bbox[2] + svg.nodes[n].bbox[4]
C5_Values == {C5_Centre(n) : n \in C5_Matched}
\* neighbours in ascending order, more than 0.1 unit (1.6 sixteenths) apart
C5_Steps ==
    {st \in C5_Values \X C5_Values :
        /\ st[1] < st[2]
        /\ ~\E v \in C5_Values : st[1] < v /\ v < st[2]
        /\ 10 * (st[2] - st[1]) > 16}
\* t tenths is the nearest tenth to d sixteenths, the even one on a tie
C5_Nearest(d, t) ==
    /\ \A u \in (t - 1)..(t + 1) : (8 * t - 5 * d) * (8 * t - 5 * d) <= (8 * u - 5 * d) * (8 * u - 5 * d)
    /\ (8 * t - 5 * d = 4 \/ 5 * d - 8 * t = 4) => t % 2 = 0
C5_Tenths(d) == CHOOSE t \in ((10 * d) \div 16)..((10 * d) \div 16 + 1) : C5_Nearest(d, t)
C5_Freq(t) == Cardinality({st \in C5_Steps : C5_Tenths(st[2] - st[1]) = t})
C5_Seen == {C5_Tenths(st[2] - st[1]) : st \in C5_Steps}
C5_Pitches == {t \in C5_Seen : \A u \in C5_Seen : C5_Freq(u) <= C5_Freq(t)}
\* C5: the scale held after calibration is the reference value
C5_ScaleReference ==
    pc = "walk" =>
        IF ~svg.ok \/ Cardinality(C5_Matched) < 2 \/ C5_Steps = {}
        THEN scale_to_mm = [num |-> 254, den |-> 10000]
        ELSE /\ scale_to_mm.num = 254
             /\ scale_to_mm.den > 0
             /\ \E t \in C5_Pitches : scale_to_mm.den = 10 * t
C5_Witness ==
    /\ pc = "walk"
    /\ C5_Values = {8, 168}
    /\ scale_to_mm = [num |-> 254, den |-> 1000]
C5_WitnessMode ==
    /\ pc = "walk" /\ Cardinality(C5_Steps) = 3 /\ Cardinality(C5_Pitches) = 1
    /\ \E t \in C5_Pitches : C5_Freq(t) = 2 /\ scale_to_mm.den = 10 * t

(***************************************************************************)
(* C6: generate_symbol emits one pin per connector, in table order: the    *)
(* first ceil(n/2) on the left (x = -width/2 - 2.54, angle 0), the other   *)
(* floor(n/2) on the right (x = width/2 + 2.54, angle 180), the k-th pin   *)
(* of a side (from 0) at y = height/2 - 1.27 - 2.54 k.                     *)
(***************************************************************************)
C6_Left == CHOOSE h \in 0..Len(connectors) : 2 * h >= Len(connectors) /\ 2 * h - 2 < Len(connectors)
\* C6: count, order, side, x, y and angle of every emitted pin
C6_PinLayout ==
    symbol.written =>
        /\ Len(symbol.pins) = Len(connectors)
        /\ \A i \in 1..Len(symbol.pins) :
              LET pin == symbol.pins[i]
                  k == IF i <= C6_Left THEN i - 1 ELSE i - 1 - C6_Left
              IN /\ pin.name = connectors[i].name /\ pin.number = connectors[i].pin
                 /\ 2 * pin.y = symbol.height - 254 - 508 * k
                 /\ IF i <= C6_Left
                    THEN 2 * pin.x = 0 - symbol.width - 508 /\ pin.angle = 0
                    ELSE 2 * pin.x = symbol.width + 508 /\ pin.angle = 180
C6_Witness ==
    /\ symbol.written /\ Len(connectors) = 3
    /\ symbol.pins[2].angle = 0 /\ symbol.pins[3].angle = 180
    /\ symbol.width > 1524

(***************************************************************************)
(* C7: during the walk, the identifier a shape is looked up by is its own  *)
(* identifier if it has one, and otherwise the identifier of its nearest   *)
(* ancestor group that has one (not that of a more distant ancestor).      *)
(* Stated of the walk that starts at the document.                         *)
(***************************************************************************)
RECURSIVE C7_NearestId(_, _)
C7_NearestId(nodes, g) ==
    IF g = 0 THEN NoId
    ELSE IF nodes[g].id # NoId THEN nodes[g].id
    ELSE C7_NearestId(nodes, nodes[g].parent)
C7_FromDocument == process_element(svg.nodes, 1, NoId)
\* C7: every lookup of the walk from the document uses own id, else the
\* nearest identified ancestor's
C7_NearestAncestorId ==
    pc = "emit_footprint" =>
        \A k \in 1..Len(C7_FromDocument) :
            LET n == C7_FromDocument[k].node
            IN C7_FromDocument[k].eid =
                  IF svg.nodes[n].id # NoId THEN svg.nodes[n].id
                  ELSE C7_NearestId(svg.nodes, svg.nodes[n].parent)

(***************************************************************************)
(* C8: the pad list holds at most one Pad per connector, and exactly one   *)
(* for each connector whose drawing_ref resolves to a shape with an        *)
(* obtainable bounding box.                                                *)
(***************************************************************************)
C8_PadsOf(c) == {i \in 1..Len(pads) : pads[i].pin = c.pin}
C8_Resolves(c) ==
    /\ c.svg_id # NoId
    /\ \E k \in 1..Len(C7_FromDocument) :
          /\ C7_FromDocument[k].eid = c.svg_id
          /\ svg.nodes[C7_FromDocument[k].node].bbox # NoBBox
\* C8: at most one pad per connector, exactly one when its drawing_ref resolves
C8_OnePadPerConnector ==
    pc = "emit_footprint" =>
        \A i \in 1..Len(connectors) :
            /\ Cardinality(C8_PadsOf(connectors[i])) <= 1
            /\ C8_Resolves(connectors[i]) => Cardinality(C8_PadsOf(connectors[i])) = 1

(***************************************************************************)
(* C9: every Pad has drill 0 if surface-mount and drill > 0 if             *)
(* through-hole; a circular through-hole pad has drill                     *)
(* max(0.6, 0.65 min(w, h)), a rectangular one 0.6 min(w, h).              *)
(***************************************************************************)
C9_MinSide(p) == IF p.size[1] < p.size[2] THEN p.size[1] ELSE p.size[2]
C9_Mm(k16, p, q) == [n |-> k16 * scale_to_mm.num * p, d |-> 16 * scale_to_mm.den * q]
\* C9: drill is 0 for smd, positive for thru_hole, and follows the two formulas
C9_DrillRule ==
    pc = "emit_footprint" =>
        \A i \in 1..Len(pads) :
            LET p == pads[i]
                calc == C9_Mm(C9_MinSide(p), 65, 100)
            IN /\ p.type = "smd" => p.drill.n = 0
               /\ p.type = "thru_hole" => p.drill.n > 0
               /\ (p.type = "thru_hole" /\ p.shape = "circle") =>
                     RatEq(p.drill, IF 10 * calc.n < 6 * calc.d THEN [n |-> 6, d |-> 10] ELSE calc)
               /\ (p.type = "thru_hole" /\ p.shape = "rect") =>
                     RatEq(p.drill, C9_Mm(C9_MinSide(p), 6, 10))

(***************************************************************************)
(* C10: a shape contributes its vertical centre to the calibration if and  *)
(* only if the walk produces a pad for it; so whenever at least two pads   *)
(* are produced the calibration has at least two centres and does not take *)
(* the 'too few pins' fallback.                                            *)
(***************************************************************************)
C10_AllLookups == Lookups(svg.nodes, Elements(svg.nodes), 1)
C10_PadShapes ==
    {C10_AllLookups[k].node : k \in {j \in 1..Len(C10_AllLookups) :
        /\ C10_AllLookups[j].eid \in C5_Ids
        /\ svg.nodes[C10_AllLookups[j].node].bbox # NoBBox}}
\* C10: the shapes giving pads are the shapes giving centres, and two pads
\* imply two centres and no too-few-pins fallback
C10_SameShapes ==
    pc = "emit_footprint" =>
        /\ C10_PadShapes = C5_Matched
        /\ Len(pads) >= 2 => (Len(y_coords) >= 2 /\ "too_few_pins" \notin warnings)
====
